---------------------------- MODULE Spec2Model ----------------------------
(***************************************************************************)
(* Stock-Portfolio-Simulator: the three numerical engines                  *)
(* (backtest_portfolio, run_monte_carlo, optimize_portfolio), the dataset  *)
(* builder get_data and the request flow of app.main.                      *)
(*                                                                         *)
(* Numbers are exact rationals <<n, d>> in lowest terms with d > 0.  The   *)
(* pair <<0, 0>> is NaN, the value NumPy produces for 0/0; it propagates   *)
(* through arithmetic and every comparison with it is FALSE.  Rounding of  *)
(* IEEE doubles is not modelled.                                           *)
(***************************************************************************)
EXTENDS Integers, Sequences, FiniteSets, TLC

VARIABLES
    pc,                   \* position of the running call
    stocks,               \* returns.columns / adj_close.columns
    returns,              \* table of daily returns: sequence of rows
    investments,          \* dict ticker -> amount
    weights,              \* backtest_portfolio: local array of line 23
    portfolio_value,      \* backtest_portfolio: the returned series
    initial_prices,       \* run_monte_carlo: adj_close.iloc[-1].values
    simulations,          \* run_monte_carlo: argument
    days,                 \* run_monte_carlo: argument
    initial_shares,       \* run_monte_carlo: local array
    simulated_prices,     \* run_monte_carlo: local array of the running trial
    day,                  \* run_monte_carlo: steps done in the running trial
    drawn,                \* what the running trial / call drew, in order
    portfolio_end_values, \* run_monte_carlo: terminal value of each trial
    stats,                \* run_monte_carlo: the returned statistics
    num_portfolios,       \* optimize_portfolio: argument
    mean_returns,         \* optimize_portfolio: returns.mean()
    cov_matrix,           \* optimize_portfolio: returns.cov()
    results,              \* optimize_portfolio: list of sample tuples
    max_sharpe,           \* optimize_portfolio: the returned best row
    rng,                  \* numpy's process-wide generator: draws consumed
    requested,            \* get_data: argument stocks
    start_date,           \* get_data: argument
    end_date,             \* get_data: argument
    market,               \* the days Yahoo Finance has a close for, per ticker
    framed,               \* column layout of what yf.download returns
    adj_close,            \* get_data: the price table, columns and index
    error,                \* exception raised by the running call, or "none"
    ticker_inputs,        \* app: ticker1..ticker3, upper-cased and stripped
    invest_inputs,        \* app: invest1..invest3
    num_simulations,      \* app: slider
    simulation_days,      \* app: slider
    shown                 \* app: what the page shows

inputs   == <<stocks, returns, investments>>
btLocals == <<weights, portfolio_value>>
mcArgs   == <<initial_prices, simulations, days>>
mcLocals == <<initial_shares, simulated_prices, day, drawn,
              portfolio_end_values, stats>>

optLocals == <<num_portfolios, mean_returns, cov_matrix, results, max_sharpe>>

dataVars == <<requested, start_date, end_date, market, framed, adj_close,
              error>>
appVars == <<ticker_inputs, invest_inputs, num_simulations, simulation_days,
             shown>>

vars == <<pc, inputs, btLocals, mcArgs, mcLocals, optLocals, rng, dataVars,
          appVars>>

---------------------------------------------------------------------------
(* Bounds of the model *)

MaxRows == 2

MaxSims == 2

MaxDays == 2

MaxK == 2

MaxDates == 3

AppSims == 1

AppDays == 1

AppK == 1

---------------------------------------------------------------------------
(* Exact arithmetic *)

Abs(n) == IF n < 0 THEN -n ELSE n

RECURSIVE GCD(_, _)
GCD(a, b) == IF b = 0 THEN a ELSE GCD(b, a % b)

NaN == <<0, 0>>

IsFinite(x) == x[2] # 0

\* n/d in lowest terms; 0/0 is NaN, x/0 a signed infinity <<+-1, 0>>
Rat(n, d) ==
    IF d = 0 THEN <<(IF n > 0 THEN 1 ELSE IF n < 0 THEN -1 ELSE 0), 0>>
    ELSE LET g == GCD(Abs(n), Abs(d))
             s == IF d < 0 THEN -1 ELSE 1
         IN  <<(s * n) \div g, (s * d) \div g>>

RInt(k) == <<k, 1>>

RAdd(x, y) ==
    IF IsFinite(x) /\ IsFinite(y)
    THEN Rat(x[1] * y[2] + y[1] * x[2], x[2] * y[2]) ELSE NaN

RSub(x, y) ==
    IF IsFinite(x) /\ IsFinite(y)
    THEN Rat(x[1] * y[2] - y[1] * x[2], x[2] * y[2]) ELSE NaN

RMul(x, y) ==
    IF IsFinite(x) /\ IsFinite(y)
    THEN Rat(x[1] * y[1], x[2] * y[2]) ELSE NaN

RDiv(x, y) ==
    IF IsFinite(x) /\ IsFinite(y)
    THEN Rat(x[1] * y[2], x[2] * y[1]) ELSE NaN

\* x > y; FALSE when either side is NaN
RGt(x, y) == IsFinite(x) /\ IsFinite(y) /\ x[1] * y[2] > y[1] * x[2]

RGe(x, y) == IsFinite(x) /\ IsFinite(y) /\ x[1] * y[2] >= y[1] * x[2]

\* np.sum / Series.sum of a sequence of numbers
RECURSIVE RSum(_)
RSum(s) == IF s = <<>> THEN RInt(0) ELSE RAdd(s[1], RSum(Tail(s)))

---------------------------------------------------------------------------
(* Inputs *)

Tickers == {"A", "B", "C"}

ColumnChoices == {<<"A">>, <<"A", "B">>}

ReturnVals == {Rat(-1, 1), Rat(-1, 2), RInt(0), Rat(1, 2)}

\* tables of n columns with 0..rows rows
ReturnTables(n, rows) ==
    UNION {[1..t -> [1..n -> ReturnVals]] : t \in 0..rows}

\* dicts the caller may pass: a ticker may be absent, an amount may be 0
InvestmentMaps ==
    UNION {[D -> {0, 1, 2}] : D \in {{"A"}, {"A", "B"}}}
    \cup {[t \in Tickers |-> IF t = "C" THEN 1 ELSE f[t]] :
            f \in [{"A", "B"} -> {0, 1, 2}]}

---------------------------------------------------------------------------
(* backtest_portfolio *)

\* investments.get(stock, 0)
InvGet(inv, stock) == IF stock \in DOMAIN inv THEN inv[stock] ELSE 0

RECURSIVE SumOver(_, _)
SumOver(inv, D) ==
    IF D = {} THEN 0
    ELSE LET t == CHOOSE x \in D : TRUE IN inv[t] + SumOver(inv, D \ {t})

\* sum(investments.values())
total_investment(inv) == SumOver(inv, DOMAIN inv)

\* np.array([investments.get(stock, 0) for stock in stocks])
InvestedIn(cols, inv) == [i \in 1..Len(cols) |-> RInt(InvGet(inv, cols[i]))]

\* mutant of WeightsOf: divides by the total of the whole dict
WeightsOf_by_total(cols, inv) ==
    LET w == InvestedIn(cols, inv)
    IN  IF total_investment(inv) > 0
        THEN [i \in 1..Len(cols) |-> RDiv(w[i], RInt(total_investment(inv)))]
        ELSE [i \in 1..Len(cols) |-> Rat(1, Len(cols))]

\* weights / weights.sum() if weights.sum() > 0
\* else np.repeat(1/len(stocks), len(stocks))
WeightsOf(cols, inv) ==
    LET w == InvestedIn(cols, inv)
        s == RSum(w)
    IN  IF RGt(s, RInt(0))
        THEN [i \in 1..Len(cols) |-> RDiv(w[i], s)]
        ELSE [i \in 1..Len(cols) |-> Rat(1, Len(cols))]

\* (1 + returns), one row
OnePlus(row) == [i \in 1..Len(row) |-> RAdd(RInt(1), row[i])]

\* DataFrame.cumprod over the rows of (1 + returns): a running product
RECURSIVE CumProdFrom(_, _)
CumProdFrom(acc, rows) ==
    IF rows = <<>> THEN <<>>
    ELSE LET cur == [i \in 1..Len(acc) |-> RMul(acc[i], OnePlus(rows[1])[i])]
         IN  <<cur>> \o CumProdFrom(cur, Tail(rows))

\* mutant of cumulative_returns: simple instead of compound growth,
\* 1 + returns.cumsum()
cumulative_returns_summed(cols, rets) ==
    [t \in 1..Len(rets) |->
        [i \in 1..Len(cols) |->
            RAdd(RInt(1), RSum([s \in 1..t |-> rets[s][i]]))]]

\* mutant of cumulative_returns: (1 + returns) without the cumprod
cumulative_returns_uncompounded(cols, rets) ==
    [t \in 1..Len(rets) |-> OnePlus(rets[t])]

cumulative_returns(cols, rets) ==
    CumProdFrom([i \in 1..Len(cols) |-> RInt(1)], rets)

\* row @ weights
Dot(row, w) == RSum([i \in 1..Len(row) |-> RMul(row[i], w[i])])

\* mutant of ValueSeries: the scaling by total_investment is left out
ValueSeries_unscaled(cols, rets, inv, w) ==
    LET cum == cumulative_returns(cols, rets)
    IN  [t \in 1..Len(rets) |-> Dot(cum[t], w)]

\* (cumulative_returns @ weights) * total_investment
ValueSeries(cols, rets, inv, w) ==
    LET cum == cumulative_returns(cols, rets)
    IN  [t \in 1..Len(rets) |->
            RMul(Dot(cum[t], w), RInt(total_investment(inv)))]

BtIdle == weights = <<>> /\ portfolio_value = <<>>

McIdle ==
    /\ initial_prices = <<>> /\ simulations = 0 /\ days = 0
    /\ initial_shares = <<>> /\ simulated_prices = <<>> /\ day = 0
    /\ drawn = <<>> /\ portfolio_end_values = <<>> /\ stats = <<>>

OptIdle ==
    /\ num_portfolios = 0 /\ mean_returns = <<>> /\ cov_matrix = <<>>
    /\ results = <<>> /\ max_sharpe = <<>>

DataIdle ==
    /\ requested = <<>> /\ start_date = 0 /\ end_date = 0
    /\ market = <<>> /\ framed = "none"
    /\ adj_close = [columns |-> <<>>, index |-> <<>>]
    /\ error = "none"

AppIdle ==
    /\ ticker_inputs = <<>> /\ invest_inputs = <<>>
    /\ num_simulations = 0 /\ simulation_days = 0 /\ shown = <<>>

BacktestInit ==
    /\ pc = "bt_call"
    /\ stocks \in ColumnChoices
    /\ returns \in ReturnTables(Len(stocks), MaxRows)
    /\ investments \in InvestmentMaps
    /\ BtIdle /\ McIdle /\ OptIdle /\ DataIdle /\ AppIdle
    /\ rng = 0

\* backtest_portfolio(returns, investments), lines 18-26
backtest_portfolio ==
    /\ pc = "bt_call"
    /\ weights' = WeightsOf(stocks, investments)
    /\ portfolio_value' = ValueSeries(stocks, returns, investments, weights')
    /\ pc' = "bt_done"
    /\ UNCHANGED <<dataVars, appVars, inputs, mcArgs, mcLocals, optLocals, rng>>

BacktestNext == backtest_portfolio

SpecBacktest == BacktestInit /\ [][BacktestNext]_vars

---------------------------------------------------------------------------
(* run_monte_carlo *)

MCReturnVals == {Rat(-1, 2), RInt(1)}

MCReturnTables(n, rows) ==
    UNION {[1..t -> [1..n -> MCReturnVals]] : t \in 1..rows}

MCInvestmentMaps ==
    {[t \in {"A"} |-> 2], [t \in {"A", "B"} |-> IF t = "A" THEN 0 ELSE 2],
     [t \in {"A", "B"} |-> 2], [t \in Tickers |-> 1]}

\* mutant of SharesOf: investment / price whatever the price
SharesOf_unguarded(cols, prices, inv) ==
    [i \in 1..Len(cols) |-> RDiv(RInt(InvGet(inv, cols[i])), prices[i])]

\* the loop of lines 26-34: investment / price if price > 0, else 0
SharesOf(cols, prices, inv) ==
    [i \in 1..Len(cols) |->
        IF RGt(prices[i], RInt(0))
        THEN RDiv(RInt(InvGet(inv, cols[i])), prices[i])
        ELSE RInt(0)]

\* mutant of StepPrices: simulated_prices * daily_returns
StepPrices_no_base(prices, row) ==
    [i \in 1..Len(prices) |-> RMul(prices[i], row[i])]

\* simulated_prices * (1 + daily_returns)
StepPrices(prices, row) ==
    [i \in 1..Len(prices) |-> RMul(prices[i], OnePlus(row)[i])]

\* np.sum(simulated_prices * initial_shares)
TrialValue(prices, shares) == Dot(prices, shares)

\* insertion into an ascending sequence
RECURSIVE Insert(_, _)
Insert(x, s) ==
    IF s = <<>> THEN <<x>>
    ELSE IF RGe(s[1], x) THEN <<x>> \o s
    ELSE <<s[1]>> \o Insert(x, Tail(s))

RECURSIVE Sorted(_)
Sorted(s) == IF s = <<>> THEN <<>> ELSE Insert(s[1], Sorted(Tail(s)))

\* mutant of Mean: the sum, not divided by the number of trials
Mean_undivided(vals) == RSum(vals)

\* ndarray.mean()
Mean(vals) == RDiv(RSum(vals), RInt(Len(vals)))

\* mutant of Percentile: interpolation between the samples as appended,
\* not ranked
Percentile_unranked(vals, q) ==
    LET n    == Len(vals)
        lo   == ((n - 1) * q) \div 100
        frac == Rat((n - 1) * q - 100 * lo, 100)
        hi   == IF lo + 1 < n THEN lo + 1 ELSE lo
    IN  RAdd(vals[lo + 1], RMul(frac, RSub(vals[hi + 1], vals[lo + 1])))

\* np.percentile(vals, q): linear interpolation between the ranked samples
\* at virtual index (n - 1) * q / 100
Percentile(vals, q) ==
    LET v    == Sorted(vals)
        n    == Len(vals)
        lo   == ((n - 1) * q) \div 100
        frac == Rat((n - 1) * q - 100 * lo, 100)
        hi   == IF lo + 1 < n THEN lo + 1 ELSE lo
    IN  RAdd(v[lo + 1], RMul(frac, RSub(v[hi + 1], v[lo + 1])))

\* np.median(vals): the middle ranked sample, or the mean of the two middle ones
Median(vals) ==
    LET v == Sorted(vals)
        n == Len(vals)
    IN  IF n % 2 = 1 THEN v[(n + 1) \div 2]
        ELSE RDiv(RAdd(v[n \div 2], v[n \div 2 + 1]), RInt(2))

Statistics(vals) ==
    [expected      |-> Mean(vals),
     percentile_5  |-> Percentile(vals, 5),
     percentile_95 |-> Percentile(vals, 95),
     median        |-> Median(vals)]

MCInit ==
    /\ pc = "mc_call"
    /\ stocks \in ColumnChoices
    /\ returns \in MCReturnTables(Len(stocks), MaxRows)
    /\ initial_prices \in [1..Len(stocks) -> {RInt(0), RInt(2)}]
    /\ investments \in MCInvestmentMaps
    /\ simulations \in 1..MaxSims
    /\ days \in 0..MaxDays
    /\ BtIdle /\ OptIdle /\ DataIdle /\ AppIdle
    /\ initial_shares = <<>> /\ simulated_prices = <<>> /\ day = 0
    /\ drawn = <<>> /\ portfolio_end_values = <<>> /\ stats = <<>>
    /\ rng = 0

\* lines 21-36: initial shares, empty result list
MCSetup ==
    /\ pc = "mc_call"
    /\ initial_shares' = SharesOf(stocks, initial_prices, investments)
    /\ portfolio_end_values' = <<>>
    /\ pc' = "mc_trials"
    /\ UNCHANGED <<dataVars, appVars, inputs, btLocals, optLocals, mcArgs,
                   simulated_prices, day, drawn,
                   stats, rng>>

\* lines 38-39: the next trial starts from a copy of the latest prices
MCTrialBegin ==
    /\ pc = "mc_trials"
    /\ Len(portfolio_end_values) < simulations
    /\ simulated_prices' = initial_prices
    /\ day' = 0
    /\ drawn' = <<>>
    /\ pc' = "mc_days"
    /\ UNCHANGED <<dataVars, appVars, inputs, btLocals, optLocals, mcArgs,
                   initial_shares,
                   portfolio_end_values, stats, rng>>

\* lines 40-42: one step; returns.sample(n=1, replace=True) takes one row
\* with numpy's global generator, and every price moves by that row
MCStep ==
    /\ pc = "mc_days"
    /\ day < days
    /\ \E i \in 1..Len(returns) :
          /\ simulated_prices' = StepPrices(simulated_prices, returns[i])
          /\ drawn' = Append(drawn, i)
    /\ day' = day + 1
    /\ rng' = rng + 1
    /\ UNCHANGED <<dataVars, appVars, pc, inputs, btLocals, optLocals, mcArgs,
                   initial_shares,
                   portfolio_end_values, stats>>

\* lines 43-44: the trial's terminal value is appended
MCTrialEnd ==
    /\ pc = "mc_days"
    /\ day = days
    /\ portfolio_end_values' =
          Append(portfolio_end_values,
                 TrialValue(simulated_prices, initial_shares))
    /\ pc' = "mc_trials"
    /\ UNCHANGED <<dataVars, appVars, inputs, btLocals, optLocals, mcArgs,
                   initial_shares, simulated_prices,
                   day, drawn, stats, rng>>

\* lines 46-54: statistics of the terminal values, then return
MCStats ==
    /\ pc = "mc_trials"
    /\ Len(portfolio_end_values) = simulations
    /\ stats' = Statistics(portfolio_end_values)
    /\ pc' = "mc_done"
    /\ UNCHANGED <<dataVars, appVars, inputs, btLocals, optLocals, mcArgs,
                   initial_shares, simulated_prices,
                   day, drawn, portfolio_end_values, rng>>

MCNext == MCSetup \/ MCTrialBegin \/ MCStep \/ MCTrialEnd \/ MCStats

SpecMC == MCInit /\ [][MCNext]_vars

---------------------------------------------------------------------------
(* optimize_portfolio *)

\* Risk and Sharpe are square roots of rationals.  Such a number x is held
\* as its signed square sgn(x) * x^2, a rational that determines x and
\* orders the same way (x > y iff their signed squares do); NaN stays NaN.
SqrtOf(q) == q

\* r / x for a rational r and a number x > 0 held as its signed square
DivBySqrt(r, xsq) ==
    IF RGe(r, RInt(0)) THEN RDiv(RMul(r, r), xsq)
    ELSE RSub(RInt(0), RDiv(RMul(r, r), xsq))

TradingDays == 252

OptReturnVals == {Rat(-1, 2), RInt(1)}

OptReturnTables(n, rows) ==
    UNION {[1..t -> [1..n -> OptReturnVals]] : t \in 1..rows}

\* outcomes of one component of np.random.random, uniform on [0, 1)
DrawVals == {RInt(0), Rat(1, 4), Rat(3, 4)}

Column(rets, i) == [t \in 1..Len(rets) |-> rets[t][i]]

\* returns.mean(): per column, the sum over the rows divided by their number
MeanOf(rets, n) ==
    [i \in 1..n |-> RDiv(RSum(Column(rets, i)), RInt(Len(rets)))]

\* returns.cov(): sample covariance, divisor (rows - 1)
CovOf(rets, n) ==
    LET m == MeanOf(rets, n)
        dev == [t \in 1..Len(rets) |-> [i \in 1..n |-> RSub(rets[t][i], m[i])]]
    IN  [i \in 1..n |-> [j \in 1..n |->
            RDiv(RSum([t \in 1..Len(rets) |-> RMul(dev[t][i], dev[t][j])]),
                 RInt(Len(rets) - 1))]]

\* weights /= np.sum(weights)
Normalized(u) ==
    LET total == RSum(u) IN [i \in 1..Len(u) |-> RDiv(u[i], total)]

\* np.sum(weights * mean_returns) * 252
portfolio_return(w, means) == RMul(Dot(w, means), RInt(TradingDays))

\* weights.T @ cov_matrix.values @ weights
Variance(w, cov) == Dot(w, [i \in 1..Len(w) |-> Dot(cov[i], w)])

\* np.sqrt(variance) * np.sqrt(252)
portfolio_std(w, cov) == SqrtOf(RMul(Variance(w, cov), RInt(TradingDays)))

\* mutant of sharpe_ratio: portfolio_return / portfolio_std whatever the
\* risk
sharpe_ratio_unguarded(ret, std) == DivBySqrt(ret, std)

\* portfolio_return / portfolio_std if portfolio_std > 0 else 0
sharpe_ratio(ret, std) ==
    IF RGt(std, RInt(0)) THEN DivBySqrt(ret, std) ELSE RInt(0)

\* the tuple appended for one drawn vector u
Sample(u, means, cov) ==
    LET w   == Normalized(u)
        ret == portfolio_return(w, means)
        std == portfolio_std(w, cov)
    IN  [Return  |-> ret,
         Risk    |-> std,
         Sharpe  |-> sharpe_ratio(ret, std),
         Weights |-> w]

\* mutant of idxmax: a later sample of equal Sharpe replaces the best
RECURSIVE idxmax_last(_, _, _)
idxmax_last(col, best, k) ==
    IF k > Len(col) THEN best
    ELSE idxmax_last(col, IF RGe(col[k], col[best]) THEN k ELSE best, k + 1)

\* Series.idxmax over positions k..Len(col): the first position of the
\* largest value
RECURSIVE idxmax(_, _, _)
idxmax(col, best, k) ==
    IF k > Len(col) THEN best
    ELSE idxmax(col, IF RGt(col[k], col[best]) THEN k ELSE best, k + 1)

OptInit ==
    /\ pc = "opt_call"
    /\ stocks \in ColumnChoices
    /\ returns \in OptReturnTables(Len(stocks), MaxRows)
    /\ investments = <<>>
    /\ num_portfolios \in 1..MaxK
    /\ mean_returns = <<>> /\ cov_matrix = <<>>
    /\ results = <<>> /\ max_sharpe = <<>>
    /\ BtIdle /\ McIdle /\ DataIdle /\ AppIdle
    /\ rng = 0

\* lines 19-22: means and covariance once, empty result list
OptSetup ==
    /\ pc = "opt_call"
    /\ mean_returns' = MeanOf(returns, Len(stocks))
    /\ cov_matrix' = CovOf(returns, Len(stocks))
    /\ results' = <<>>
    /\ drawn' = <<>>
    /\ pc' = "opt_loop"
    /\ UNCHANGED <<dataVars, appVars, inputs, btLocals, mcArgs,
                   initial_shares, simulated_prices,
                   day, portfolio_end_values, stats, num_portfolios,
                   max_sharpe, rng>>

\* lines 24-32: one random portfolio; np.random.random(len(stocks)) takes
\* len(stocks) numbers from numpy's global generator
OptSample ==
    /\ pc = "opt_loop"
    /\ Len(results) < num_portfolios
    /\ \E u \in [1..Len(stocks) -> DrawVals] :
          /\ results' = Append(results, Sample(u, mean_returns, cov_matrix))
          /\ drawn' = Append(drawn, u)
    /\ rng' = rng + Len(stocks)
    /\ UNCHANGED <<dataVars, appVars, pc, inputs, btLocals, mcArgs,
                   initial_shares,
                   simulated_prices, day, portfolio_end_values, stats,
                   num_portfolios, mean_returns, cov_matrix, max_sharpe>>

\* lines 34-36: results_df.iloc[results_df['Sharpe'].idxmax()]; the row keeps
\* its label, positions counted from 0
OptSelect ==
    /\ pc = "opt_loop"
    /\ Len(results) = num_portfolios
    /\ LET best == idxmax([k \in 1..Len(results) |-> results[k].Sharpe], 1, 2)
       IN  max_sharpe' = [name |-> best - 1, row |-> results[best]]
    /\ pc' = "opt_done"
    /\ UNCHANGED <<dataVars, appVars, inputs, btLocals, mcArgs, mcLocals,
                   num_portfolios,
                   mean_returns, cov_matrix, results, rng>>

OptNext == OptSetup \/ OptSample \/ OptSelect

SpecOpt == OptInit /\ [][OptNext]_vars

---------------------------------------------------------------------------
(* get_data *)

Dates == 1..MaxDates

\* argument lists of one to three tickers, repetitions allowed
Requests == UNION {[1..n -> Tickers] : n \in 1..3}

\* (start_date, end_date) pairs: the whole history, its tail, an empty range
DateRanges == {<<1, MaxDates + 1>>, <<2, MaxDates + 1>>, <<2, 2>>}

TickerNo(t) == IF t = "A" THEN 0 ELSE IF t = "B" THEN 1 ELSE 2

\* the adjusted close of ticker t on day d, where Yahoo has one
PriceOf(t, d) == IF (d + TickerNo(t)) % 2 = 0 THEN RInt(1) ELSE RInt(2)

\* the days of [start, end) on which ticker t has a close
Visible(t, from, to) == {d \in market[t] : from <= d /\ d < to}

\* data[ticker]['Close'] on day d: the close, or NaN where the ticker has none
Close(t, d) ==
    IF d \in Visible(t, start_date, end_date) THEN PriceOf(t, d) ELSE NaN

RECURSIVE Ascending(_)
Ascending(S) ==
    IF S = {} THEN <<>>
    ELSE LET m == CHOOSE x \in S : \A y \in S : x <= y
         IN  <<m>> \o Ascending(S \ {m})

\* adj_close[ticker] = ... for each ticker in turn: a repeated ticker
\* overwrites its own column
RECURSIVE Columns(_)
Columns(req) ==
    IF req = <<>> THEN <<>>
    ELSE LET front == Columns(SubSeq(req, 1, Len(req) - 1))
             t     == req[Len(req)]
         IN  IF \E i \in DOMAIN front : front[i] = t THEN front
             ELSE Append(front, t)

Range(seq) == {seq[i] : i \in DOMAIN seq}

\* lines 23-55: the table assembled from the download
Assembled(req, layout) ==
    IF Len(req) = 1 \/ layout = "flat"
    THEN \* one ticker's frame: a column only if it has rows and a 'Close'
         LET t    == req[1]
             rows == Visible(t, start_date, end_date)
         IN  IF rows # {} /\ layout = "flat"
             THEN [columns |-> <<t>>, index |-> Ascending(rows)]
             ELSE [columns |-> <<>>, index |-> <<>>]
    ELSE \* MultiIndex frame: one 'Close' per requested ticker, over the
         \* days on which any of them traded
         [columns |-> Columns(req),
          index   |-> Ascending(UNION {Visible(t, start_date, end_date) :
                                         t \in Range(req)})]

\* adj_close.dropna(axis=1, how='all')
DropEmptyColumns(table) ==
    LET HasClose(t) == \E d \in Range(table.index) : Close(t, d) # NaN
    IN  [table EXCEPT !.columns = SelectSeq(table.columns, HasClose)]

\* adj_close.dropna(): only the days on which every column has a close
DropIncompleteRows(table) ==
    LET Complete(d) == \A t \in Range(table.columns) : Close(t, d) # NaN
    IN  [table EXCEPT !.index = SelectSeq(table.index, Complete)]

\* DataFrame.empty
Empty(table) == table.columns = <<>> \/ table.index = <<>>

\* adj_close.pct_change().dropna(): price[t] / price[t-1] - 1, the first
\* row (NaN) dropped
PctChange(table) ==
    [r \in 1..(Len(table.index) - 1) |->
        [i \in 1..Len(table.columns) |->
            RSub(RDiv(Close(table.columns[i], table.index[r + 1]),
                      Close(table.columns[i], table.index[r])),
                 RInt(1))]]

\* the layout a download can have: a frame with one column level needs the
\* request to name a single ticker
Layouts(req) ==
    IF Cardinality(Range(req)) = 1 THEN {"flat", "multi"} ELSE {"multi"}

DataInit ==
    /\ pc = "gd_call"
    /\ requested \in Requests
    /\ \E r \in DateRanges : start_date = r[1] /\ end_date = r[2]
    /\ market \in [Tickers -> SUBSET Dates]
    /\ framed \in Layouts(requested)
    /\ adj_close = [columns |-> <<>>, index |-> <<>>]
    /\ error = "none"
    /\ stocks = <<>> /\ returns = <<>> /\ investments = <<>>
    /\ BtIdle /\ McIdle /\ OptIdle /\ AppIdle
    /\ rng = 0

\* lines 23-55
GDDownload ==
    /\ pc = "gd_call"
    /\ adj_close' = Assembled(requested, framed)
    /\ pc' = "gd_columns"
    /\ UNCHANGED <<inputs, btLocals, mcArgs, mcLocals, optLocals, rng,
                   requested, start_date, end_date, market, framed, error,
                   appVars>>

\* lines 58-61
GDDropEmptyColumns ==
    /\ pc = "gd_columns"
    /\ adj_close' = DropEmptyColumns(adj_close)
    /\ IF Empty(adj_close')
       THEN pc' = "gd_raised" /\ error' = "ValueError: Failed to download data"
       ELSE pc' = "gd_rows" /\ error' = error
    /\ UNCHANGED <<inputs, btLocals, mcArgs, mcLocals, optLocals, rng,
                   requested, start_date, end_date, market, framed, appVars>>

\* lines 64-67
GDAlign ==
    /\ pc = "gd_rows"
    /\ adj_close' = DropIncompleteRows(adj_close)
    /\ IF Empty(adj_close')
       THEN pc' = "gd_raised" /\ error' = "ValueError: No overlapping data"
       ELSE pc' = "gd_returns" /\ error' = error
    /\ UNCHANGED <<inputs, btLocals, mcArgs, mcLocals, optLocals, rng,
                   requested, start_date, end_date, market, framed, appVars>>

\* lines 69-70: the two tables are returned
GDReturn ==
    /\ pc = "gd_returns"
    /\ returns' = PctChange(adj_close)
    /\ stocks' = adj_close.columns
    /\ pc' = "gd_done"
    /\ UNCHANGED <<investments, btLocals, mcArgs, mcLocals, optLocals, rng,
                   dataVars, appVars>>

DataNext == GDDownload \/ GDDropEmptyColumns \/ GDAlign \/ GDReturn

SpecData == DataInit /\ [][DataNext]_vars

---------------------------------------------------------------------------
(* app.main: one press of "Run Analysis" *)

AppTickerInputs == [1..3 -> {"", "A", "B", "C"}]

AppInvestInputs == {<<0, 0, 0>>, <<1, 1, 1>>, <<1, 0, 2>>}

AppMarkets ==
    [Tickers -> {{}, Dates}]
    \cup {[t \in Tickers |-> IF t = "A" THEN {1} ELSE Dates \ {1}]}

AppDateRanges == {<<1, MaxDates + 1>>, <<2, 2>>}

\* lines 205-209: the dict literal; a repeated key keeps its last value
AppInvestments(tickers, amounts) ==
    [t \in Range(tickers) |->
        amounts[CHOOSE i \in 1..3 :
                   /\ tickers[i] = t
                   /\ \A j \in (i + 1)..3 : tickers[j] # t]]

AppInit ==
    /\ pc = "app_idle"
    /\ ticker_inputs \in AppTickerInputs
    /\ invest_inputs \in AppInvestInputs
    /\ num_simulations \in 1..AppSims
    /\ simulation_days \in 1..AppDays
    /\ \E r \in AppDateRanges : start_date = r[1] /\ end_date = r[2]
    /\ market \in AppMarkets
    /\ framed \in Layouts(ticker_inputs)
    /\ shown = <<>>
    /\ requested = <<>>
    /\ adj_close = [columns |-> <<>>, index |-> <<>>]
    /\ error = "none"
    /\ stocks = <<>> /\ returns = <<>> /\ investments = <<>>
    /\ BtIdle /\ McIdle /\ OptIdle
    /\ rng = 0

\* lines 202-232: the inputs are checked, then get_data is called
AppRun ==
    /\ pc = "app_idle"
    /\ investments' = AppInvestments(ticker_inputs, invest_inputs)
    /\ IF \E i \in 1..3 : ticker_inputs[i] = ""
       THEN /\ shown' = <<"error: Please enter all three stock tickers!">>
            /\ pc' = "app_returned"
            /\ requested' = requested
       ELSE IF total_investment(investments') = 0
       THEN /\ shown' =
               <<"error: Please enter investment amounts greater than 0!">>
            /\ pc' = "app_returned"
            /\ requested' = requested
       ELSE /\ shown' = shown
            /\ pc' = "gd_call"
            /\ requested' = ticker_inputs
    /\ UNCHANGED <<stocks, returns, btLocals, mcArgs, mcLocals, optLocals,
                   rng, start_date, end_date, market, framed, adj_close,
                   error, ticker_inputs, invest_inputs, num_simulations,
                   simulation_days>>

\* mutant of AppDownloadRaised: the exception is swallowed and the request
\* goes on to the backtest
AppDownloadRaised_swallowed ==
    /\ pc = "gd_raised"
    /\ shown' = shown
    /\ pc' = "bt_call"
    /\ UNCHANGED <<inputs, btLocals, mcArgs, mcLocals, optLocals, rng,
                   dataVars, ticker_inputs, invest_inputs, num_simulations,
                   simulation_days>>

\* lines 380-385: get_data raised
AppDownloadRaised ==
    /\ pc = "gd_raised"
    /\ shown' = Append(shown, "error: An error occurred")
    /\ pc' = "app_returned"
    /\ UNCHANGED <<inputs, btLocals, mcArgs, mcLocals, optLocals, rng,
                   dataVars, ticker_inputs, invest_inputs, num_simulations,
                   simulation_days>>

\* lines 380-385: the same handler catches an exception that leaves a
\* statement of an engine call (lines 242-257); nothing of the call's
\* result is kept
AppEngineRaised ==
    /\ pc \in {"bt_call", "mc_call", "mc_trials", "mc_days",
               "opt_call", "opt_loop"}
    /\ shown' = Append(shown, "error: An error occurred")
    /\ pc' = "app_returned"
    /\ UNCHANGED <<inputs, btLocals, mcArgs, mcLocals, optLocals, rng,
                   dataVars, ticker_inputs, invest_inputs, num_simulations,
                   simulation_days>>

\* lines 234-242: the tables are checked, then backtest_portfolio is called
AppAfterDownload ==
    /\ pc = "gd_done"
    /\ IF Empty(adj_close) \/ returns = <<>>
       THEN /\ shown' = Append(shown, "error: Failed to download data")
            /\ pc' = "app_returned"
       ELSE /\ shown' = shown
            /\ pc' = "bt_call"
    /\ UNCHANGED <<inputs, btLocals, mcArgs, mcLocals, optLocals, rng,
                   dataVars, ticker_inputs, invest_inputs, num_simulations,
                   simulation_days>>

\* lines 244-251: run_monte_carlo is called with the sliders' values
AppAfterBacktest ==
    /\ pc = "bt_done"
    /\ initial_prices' =
          [i \in 1..Len(adj_close.columns) |->
              Close(adj_close.columns[i],
                    adj_close.index[Len(adj_close.index)])]
    /\ simulations' = num_simulations
    /\ days' = simulation_days
    /\ pc' = "mc_call"
    /\ UNCHANGED <<inputs, btLocals, mcLocals, optLocals, rng, dataVars,
                   appVars>>

\* lines 253-257: optimize_portfolio is called with its default sample count
AppAfterMonteCarlo ==
    /\ pc = "mc_done"
    /\ num_portfolios' = AppK
    /\ pc' = "opt_call"
    /\ UNCHANGED <<inputs, btLocals, mcArgs, mcLocals, mean_returns,
                   cov_matrix, results, max_sharpe, rng, dataVars, appVars>>

\* lines 259-335: the results section: summary, allocation, charts
AppRender ==
    /\ pc = "opt_done"
    /\ shown' = Append(shown, "results")
    /\ pc' = "app_insights"
    /\ UNCHANGED <<inputs, btLocals, mcArgs, mcLocals, optLocals, rng,
                   dataVars, ticker_inputs, invest_inputs, num_simulations,
                   simulation_days>>

\* lines 336-385: the optimal-weights table pairs the three tickers typed
\* with one weight per column of returns; pandas raises when the lengths
\* differ
AppInsights ==
    /\ pc = "app_insights"
    /\ IF Len(requested) = Len(stocks)
       THEN shown' = Append(shown, "insights")
       ELSE shown' = Append(shown, "error: An error occurred")
    /\ pc' = "app_returned"
    /\ UNCHANGED <<inputs, btLocals, mcArgs, mcLocals, optLocals, rng,
                   dataVars, ticker_inputs, invest_inputs, num_simulations,
                   simulation_days>>

AppNext ==
    \/ AppRun \/ DataNext \/ AppDownloadRaised \/ AppAfterDownload
    \/ backtest_portfolio \/ AppAfterBacktest
    \/ MCNext \/ AppAfterMonteCarlo
    \/ OptNext \/ AppRender \/ AppInsights
    \/ AppEngineRaised

SpecApp == AppInit /\ [][AppNext]_vars

---------------------------------------------------------------------------
(* Properties of backtest_portfolio (SpecBacktest) *)

N == Len(stocks)

\* the sum of all amounts of the investments mapping
AmountsTotal ==
    InvGet(investments, "A") + InvGet(investments, "B")
        + InvGet(investments, "C")

\* the amount invested in column a, and the sum over the columns
ColumnAmount(a) == InvGet(investments, stocks[a])

RECURSIVE ColumnAmountsUpTo(_)
ColumnAmountsUpTo(n) ==
    IF n = 0 THEN 0 ELSE ColumnAmount(n) + ColumnAmountsUpTo(n - 1)

\* product over the dates s <= t of (1 + return[a][s])
RECURSIVE Growth(_, _)
Growth(a, t) ==
    IF t = 0 THEN RInt(1)
    ELSE RMul(Growth(a, t - 1), RAdd(RInt(1), returns[t][a]))

\* sum over the columns a <= n of weights[a] * Growth(a, t)
RECURSIVE WeightedGrowth(_, _)
WeightedGrowth(n, t) ==
    IF n = 0 THEN RInt(0)
    ELSE RAdd(WeightedGrowth(n - 1, t), RMul(weights[n], Growth(n, t)))

\* C1: backtest_portfolio returns one value per date of the return index,
\* and the value at date t is total_investment * sum_a weight[a] *
\* prod_{s <= t} (1 + return[a][s]), total_investment being the sum of all
\* amounts of the investments mapping; at the first date this is
\* total_investment * sum_a weight[a] * (1 + return[a][0]).
C1_BacktestValue ==
    pc = "bt_done" =>
        /\ DOMAIN portfolio_value = DOMAIN returns
        /\ \A t \in DOMAIN returns :
              portfolio_value[t]
                 = RMul(RInt(AmountsTotal), WeightedGrowth(N, t))

C1_Witness ==
    /\ pc = "bt_done" /\ N = 2 /\ Len(returns) = 2
    /\ AmountsTotal > ColumnAmountsUpTo(N)
    /\ ColumnAmount(1) > 0 /\ ColumnAmount(2) > ColumnAmount(1)
    /\ portfolio_value[2] # portfolio_value[1]
    /\ portfolio_value[2] # RInt(0)

\* C2: the derived weights sum to 1, each being investment[a] / sum, for a
\* non-negative investment vector over the N columns with positive sum, and
\* each is exactly 1/N when all amounts are 0.
C2_WeightNormalization ==
    pc = "bt_done" =>
        /\ DOMAIN weights = 1..N
        /\ ColumnAmountsUpTo(N) > 0 =>
              /\ RSum(weights) = RInt(1)
              /\ \A a \in 1..N :
                    weights[a] = Rat(ColumnAmount(a), ColumnAmountsUpTo(N))
        /\ ColumnAmountsUpTo(N) = 0 =>
              \A a \in 1..N : weights[a] = Rat(1, N)

C2_Witness ==
    /\ pc = "bt_done" /\ N = 2
    /\ ColumnAmount(1) = 1 /\ ColumnAmount(2) = 2
    /\ AmountsTotal > ColumnAmountsUpTo(N)
    /\ weights = <<Rat(1, 3), Rat(2, 3)>>

\* the fallback of C2: every amount 0, weights 1/N
C2_WitnessZero ==
    /\ pc = "bt_done" /\ N = 2 /\ ColumnAmountsUpTo(N) = 0
    /\ weights = <<Rat(1, 2), Rat(1, 2)>>

\* two assets with perfectly anti-correlated returns of zero mean, held in
\* equal amounts by a mapping that names just these two assets
RECURSIVE ReturnSum(_, _)
ReturnSum(a, t) ==
    IF t = 0 THEN RInt(0) ELSE RAdd(ReturnSum(a, t - 1), returns[t][a])

AntiCorrelatedPair ==
    /\ N = 2
    /\ DOMAIN investments = {stocks[1], stocks[2]}
    /\ ColumnAmount(1) = ColumnAmount(2)
    /\ \A t \in DOMAIN returns :
          returns[t][2] = RSub(RInt(0), returns[t][1])
    /\ ReturnSum(1, Len(returns)) = RInt(0)

\* C10 as stated: for such a pair the value equals the initial total
\* investment at every date of the return index.
C10_ConstantValue ==
    (pc = "bt_done" /\ AntiCorrelatedPair) =>
        \A t \in DOMAIN returns : portfolio_value[t] = RInt(AmountsTotal)

\* C10 amended: for such a pair the value equals the initial total
\* investment at the first date of the return index.
C10_FirstDateValue ==
    (pc = "bt_done" /\ AntiCorrelatedPair /\ Len(returns) >= 1) =>
        portfolio_value[1] = RInt(AmountsTotal)

C10_Witness ==
    /\ pc = "bt_done" /\ AntiCorrelatedPair /\ Len(returns) = 2
    /\ returns[1][1] = Rat(1, 2)
    /\ ColumnAmount(1) = 2
    /\ portfolio_value[1] = RInt(4)
    /\ portfolio_value[2] = RInt(3)

---------------------------------------------------------------------------
(* Properties of run_monte_carlo (SpecMC) *)

Last(s) == s[Len(s)]

\* product over the first k rows drawn in the running trial of (1 + R[i][a])
RECURSIVE DrawnGrowth(_, _)
DrawnGrowth(a, k) ==
    IF k = 0 THEN RInt(1)
    ELSE RMul(DrawnGrowth(a, k - 1), RAdd(RInt(1), returns[drawn[k]][a]))

\* sum over the assets a <= n of
\* initial_shares[a] * latest_price[a] * DrawnGrowth(a, k)
RECURSIVE HeldValue(_, _)
HeldValue(n, k) ==
    IF n = 0 THEN RInt(0)
    ELSE RAdd(HeldValue(n - 1, k),
              RMul(RMul(initial_shares[n], initial_prices[n]),
                   DrawnGrowth(n, k)))

RECURSIVE RPow(_, _)
RPow(x, k) == IF k = 0 THEN RInt(1) ELSE RMul(x, RPow(x, k - 1))

TrialJustEnded ==
    pc \in {"mc_trials", "mc_done"} /\ portfolio_end_values # <<>>

\* every step of a trial multiplies every price by (1 + the drawn row), and
\* the terminal value is sum_a shares[a] * latest[a] * prod of the D rows
TrialValueLaw ==
    /\ pc = "mc_days" =>
          /\ Len(drawn) = day /\ day <= days
          /\ \A a \in 1..N :
                simulated_prices[a]
                   = RMul(initial_prices[a], DrawnGrowth(a, day))
    /\ TrialJustEnded =>
          /\ Len(drawn) = days
          /\ Last(portfolio_end_values) = HeldValue(N, days)
    /\ Len(portfolio_end_values) <= simulations

\* a single asset whose every return is r
SingleAssetConstantReturn ==
    N = 1 /\ \A t \in DOMAIN returns : returns[t] = returns[1]

\* C3 as stated: TrialValueLaw, and with a single asset whose every return
\* is r the terminal value is investment * (1 + r)^D.
C3_AsStated ==
    /\ TrialValueLaw
    /\ (TrialJustEnded /\ SingleAssetConstantReturn) =>
          Last(portfolio_end_values)
             = RMul(RInt(ColumnAmount(1)),
                    RPow(RAdd(RInt(1), returns[1][1]), days))

\* C3 amended: TrialValueLaw, and with a single asset of positive latest
\* price whose every return is r the terminal value is
\* investment * (1 + r)^D.
C3_TrialValue ==
    /\ TrialValueLaw
    /\ (TrialJustEnded /\ SingleAssetConstantReturn
            /\ RGt(initial_prices[1], RInt(0))) =>
          Last(portfolio_end_values)
             = RMul(RInt(ColumnAmount(1)),
                    RPow(RAdd(RInt(1), returns[1][1]), days))

C3_Witness ==
    /\ TrialJustEnded /\ N = 2 /\ days = 2 /\ drawn = <<2, 1>>
    /\ returns[1] # returns[2]
    /\ returns[1][1] # returns[1][2]
    /\ \A a \in 1..N : RGt(initial_shares[a], RInt(0))
    /\ Len(portfolio_end_values) = 2
    /\ portfolio_end_values[1] # portfolio_end_values[2]

\* the single-asset case of C3
C3_WitnessSingle ==
    /\ TrialJustEnded /\ SingleAssetConstantReturn /\ days = 2
    /\ Len(returns) = 2
    /\ initial_prices[1] = RInt(2) /\ ColumnAmount(1) = 2
    /\ returns[1][1] = Rat(-1, 2)
    /\ Last(portfolio_end_values) = Rat(1, 2)

\* sum_a latest_price[a] * initial_shares[a]
RECURSIVE InitialValue(_)
InitialValue(n) ==
    IF n = 0 THEN RInt(0)
    ELSE RAdd(InitialValue(n - 1),
              RMul(initial_prices[n], initial_shares[n]))

\* C4: with D = 0 every trial's terminal value is the initial portfolio
\* value, and expected value, 5th and 95th percentile and median all equal
\* that value.
C4_HorizonZero ==
    (pc = "mc_done" /\ days = 0) =>
        /\ Len(portfolio_end_values) = simulations
        /\ \A k \in DOMAIN portfolio_end_values :
              portfolio_end_values[k] = InitialValue(N)
        /\ stats.expected = InitialValue(N)
        /\ stats.percentile_5 = InitialValue(N)
        /\ stats.percentile_95 = InitialValue(N)
        /\ stats.median = InitialValue(N)

C4_Witness ==
    /\ pc = "mc_done" /\ days = 0 /\ simulations = 2 /\ N = 2
    /\ initial_prices[1] = RInt(0)
    /\ stats.expected = RInt(2)
    /\ stats.median = RInt(2)

\* C9: no step of an engine call writes state that outlives the call; here
\* the state of numpy's process-wide generator.
C9_NoStateOutlivesCall == [][rng' = rng]_vars

---------------------------------------------------------------------------
(* Properties of optimize_portfolio (SpecOpt) *)

\* C5: every recorded weight vector has one non-negative component per
\* asset and components summing to 1, whatever np.random.random returned.
C5_WeightsValid ==
    \A k \in DOMAIN results :
        /\ DOMAIN results[k].Weights = 1..N
        /\ \A a \in 1..N : RGe(results[k].Weights[a], RInt(0))
        /\ RSum(results[k].Weights) = RInt(1)

\* C6: exactly K samples are recorded, in sampling order, and the best is
\* one of them, of Sharpe ratio >= every sample's and the earliest of those
\* that share the maximum.
C6_BestSample ==
    /\ Len(results) <= num_portfolios
    /\ Len(results) = Len(drawn)
    /\ \A k \in DOMAIN results :
          \A a \in 1..N :
             results[k].Weights[a] = RDiv(drawn[k][a], RSum(drawn[k]))
    /\ pc = "opt_done" =>
          /\ Len(results) = num_portfolios
          /\ max_sharpe.name + 1 \in DOMAIN results
          /\ max_sharpe.row = results[max_sharpe.name + 1]
          /\ \A j \in DOMAIN results :
                RGe(max_sharpe.row.Sharpe, results[j].Sharpe)
          /\ \A j \in 1..max_sharpe.name :
                RGt(max_sharpe.row.Sharpe, results[j].Sharpe)

\* the best is a later sample, strictly better than the first
C6_Witness ==
    /\ pc = "opt_done" /\ num_portfolios = 2 /\ N = 2
    /\ max_sharpe.name = 1
    /\ RGt(results[2].Sharpe, results[1].Sharpe)
    /\ RGt(results[1].Sharpe, RInt(0))

\* two samples share the maximum and the earlier one is the best
C6_WitnessTie ==
    /\ pc = "opt_done" /\ num_portfolios = 2 /\ N = 2
    /\ max_sharpe.name = 0
    /\ results[2].Sharpe = results[1].Sharpe
    /\ results[2].Weights # results[1].Weights
    /\ RGt(results[1].Sharpe, RInt(0))

---------------------------------------------------------------------------
(* Properties of get_data (SpecData) *)

\* the requested ticker t resolves to no data in the requested range
NoData(t) == Visible(t, start_date, end_date) = {}

\* the requested tickers have a date in common in the requested range
CommonDate ==
    \E d \in Dates :
        \A t \in Range(requested) : d \in Visible(t, start_date, end_date)

\* C7: get_data fails, returning no tables, whenever the requested tickers
\* have no date in common or any one of them resolves to no data; so every
\* table it returns has one column per requested ticker.
C7_FailsOnMissingData ==
    /\ (~CommonDate \/ \E t \in Range(requested) : NoData(t)) =>
          pc # "gd_done"
    /\ pc = "gd_done" => Range(adj_close.columns) = Range(requested)

\* what the code does guarantee: it fails when no requested ticker has
\* data, and a returned table has no NaN and at least one row and column
DataReturnedIsAligned ==
    pc = "gd_done" =>
        /\ ~Empty(adj_close)
        /\ Range(adj_close.columns) \subseteq Range(requested)
        /\ \A t \in Range(adj_close.columns) :
              \A d \in Range(adj_close.index) : Close(t, d) # NaN
        /\ Len(returns) = Len(adj_close.index) - 1
        /\ stocks = adj_close.columns

\* a ticker without data is dropped and the call returns
C7_DroppedTicker ==
    /\ pc = "gd_done"
    /\ requested = <<"A", "B", "C">>
    /\ NoData("C") /\ adj_close.columns = <<"A", "B">>
    /\ Len(returns) = 2

---------------------------------------------------------------------------
(* Properties of the request flow (SpecApp) *)

\* what the caller asked for is well-formed: no empty and no repeated
\* ticker, positive counts, a start date before the end date
RequestValid ==
    /\ \A i \in 1..3 : ticker_inputs[i] # ""
    /\ \A i, j \in 1..3 : i # j => ticker_inputs[i] # ticker_inputs[j]
    /\ num_simulations > 0 /\ simulation_days > 0 /\ AppK > 0
    /\ start_date < end_date

ValidationErrors ==
    {<<"error: Please enter all three stock tickers!">>,
     <<"error: Please enter investment amounts greater than 0!">>}

\* C8: a request with an empty ticker, a duplicate ticker, a non-positive
\* count or a start date not before the end date is rejected with a
\* validation error before any download or engine step starts.
C8_InvalidRejectedEarly ==
    ~RequestValid =>
        \/ pc = "app_idle"
        \/ pc = "app_returned" /\ shown \in ValidationErrors

\* the part of C8 the code keeps: an empty ticker is rejected before the
\* download
EmptyTickerRejected ==
    (\E i \in 1..3 : ticker_inputs[i] = "") =>
        \/ pc = "app_idle"
        \/ pc = "app_returned" /\ shown \in ValidationErrors

\* a request with a repeated ticker is analysed to the end
C8_DuplicateAnalysed ==
    /\ ticker_inputs = <<"A", "A", "B">>
    /\ pc = "app_returned"
    /\ shown[1] = "results"

---------------------------------------------------------------------------
(* Ordering of the Monte Carlo statistics (SpecMC) *)

\* the terminal values in ascending order
Ranked == Sorted(portfolio_end_values)

\* the q-th percentile as the weighted mean of the two ranked samples that
\* enclose the virtual rank (S - 1) * q / 100
Interpolated(q) ==
    LET pos == (Len(Ranked) - 1) * q
        lo  == pos \div 100
        r   == pos % 100
        hi  == IF r = 0 THEN lo ELSE lo + 1
    IN  RDiv(RAdd(RMul(RInt(100 - r), Ranked[lo + 1]),
                  RMul(RInt(r), Ranked[hi + 1])),
             RInt(100))

\* C11: for S >= 2 terminal values the returned statistics satisfy
\* percentile_5 <= median <= percentile_95, and both percentiles are the
\* linear interpolation between ranked samples; nothing is required of the
\* mean.
C11_PercentileOrdering ==
    (pc = "mc_done" /\ simulations >= 2) =>
        /\ Len(portfolio_end_values) = simulations
        /\ RGe(stats.median, stats.percentile_5)
        /\ RGe(stats.percentile_95, stats.median)
        /\ stats.percentile_5 = Interpolated(5)
        /\ stats.percentile_95 = Interpolated(95)

\* two trials whose values were appended in descending order
C11_Witness ==
    /\ pc = "mc_done" /\ simulations = 2
    /\ RGt(portfolio_end_values[1], portfolio_end_values[2])
    /\ RGt(stats.median, stats.percentile_5)
    /\ RGt(stats.percentile_95, stats.median)

---------------------------------------------------------------------------
(* Initial shares of run_monte_carlo (SpecMC) *)

\* an asset whose latest price is 0 or whose investment is 0 or absent
ZeroShare(a) == initial_prices[a] = RInt(0) \/ ColumnAmount(a) = 0

\* sum over the assets a <= n that are not ZeroShare of
\* simulated_prices[a] * initial_shares[a]
RECURSIVE FundedValue(_)
FundedValue(n) ==
    IF n = 0 THEN RInt(0)
    ELSE RAdd(FundedValue(n - 1),
              IF ZeroShare(n) THEN RInt(0)
              ELSE RMul(simulated_prices[n], initial_shares[n]))

\* C12: initial_shares[a] is investment[a] / latest_price[a] when the
\* latest price is positive and 0 when the latest price is 0 or the
\* investment is 0 or absent; no division by zero happens (every share
\* count, terminal value and statistic is a finite number), and such an
\* asset contributes 0 to the terminal value of every trial.
C12_SharesGuarded ==
    (pc \in {"mc_trials", "mc_days", "mc_done"}) =>
        /\ Len(initial_shares) = N
        /\ \A a \in 1..N :
              /\ IsFinite(initial_shares[a])
              /\ RGt(initial_prices[a], RInt(0)) =>
                    RMul(initial_shares[a], initial_prices[a])
                       = RInt(ColumnAmount(a))
              /\ ZeroShare(a) => initial_shares[a] = RInt(0)
              /\ (pc = "mc_days" /\ ZeroShare(a)) =>
                    RMul(simulated_prices[a], initial_shares[a]) = RInt(0)
        /\ TrialJustEnded =>
              /\ IsFinite(Last(portfolio_end_values))
              /\ Last(portfolio_end_values) = FundedValue(N)
        /\ pc = "mc_done" =>
              /\ IsFinite(stats.expected) /\ IsFinite(stats.median)
              /\ IsFinite(stats.percentile_5)
              /\ IsFinite(stats.percentile_95)

\* a call that has returned: one asset of latest price 0 with money on it,
\* next to a funded asset of positive price
C12_Witness ==
    /\ pc = "mc_done" /\ N = 2 /\ days = 2 /\ simulations = 2
    /\ initial_prices[1] = RInt(0) /\ ColumnAmount(1) = 2
    /\ RGt(initial_prices[2], RInt(0)) /\ ColumnAmount(2) = 2
    /\ RGt(stats.expected, RInt(0))

\* an asset of positive price that the investments mapping does not name
C12_WitnessAbsent ==
    /\ pc = "mc_done" /\ N = 2 /\ days = 2
    /\ "B" \notin DOMAIN investments
    /\ RGt(initial_prices[2], RInt(0))
    /\ initial_shares[2] = RInt(0)

---------------------------------------------------------------------------
(* Return and Sharpe ratio of the recorded samples (SpecOpt) *)

\* sum over the first t rows of the returns of asset a
RECURSIVE ReturnTotal(_, _)
ReturnTotal(a, t) ==
    IF t = 0 THEN RInt(0)
    ELSE RAdd(ReturnTotal(a, t - 1), returns[t][a])

\* sum over the assets a <= n of w[a] * (mean daily return of a)
RECURSIVE WeightedMean(_, _)
WeightedMean(w, n) ==
    IF n = 0 THEN RInt(0)
    ELSE RAdd(WeightedMean(w, n - 1),
              RMul(w[n], RDiv(ReturnTotal(n, Len(returns)),
                              RInt(Len(returns)))))

\* x * |x|
SignedSquare(x) ==
    IF RGe(x, RInt(0)) THEN RMul(x, x) ELSE RSub(RInt(0), RMul(x, x))

\* C13: every recorded Return is 252 * (weights . mean daily returns); the
\* recorded Sharpe ratio is Return / Risk when Risk > 0 (Sharpe * Risk =
\* Return, with Risk and Sharpe held as signed squares) and exactly 0 when
\* Risk is not greater than 0, so a zero-risk sample divides nothing by 0.
C13_ReturnAndSharpe ==
    \A k \in DOMAIN results :
        /\ results[k].Return
              = RMul(RInt(252), WeightedMean(results[k].Weights, N))
        /\ RGt(results[k].Risk, RInt(0)) =>
              /\ IsFinite(results[k].Sharpe)
              /\ RMul(results[k].Sharpe, results[k].Risk)
                    = SignedSquare(results[k].Return)
        /\ ~RGt(results[k].Risk, RInt(0)) => results[k].Sharpe = RInt(0)

\* a zero-risk sample of non-zero return next to a sample of positive risk,
\* in a call that has returned
C13_Witness ==
    /\ pc = "opt_done" /\ N = 2 /\ num_portfolios = 2
    /\ results[1].Risk = RInt(0)
    /\ RGt(results[1].Return, RInt(0))
    /\ results[1].Sharpe = RInt(0)
    /\ RGt(results[2].Risk, RInt(0))
    /\ RGt(results[2].Sharpe, RInt(0))
    /\ max_sharpe.name = 1

---------------------------------------------------------------------------
(* A total loss in backtest_portfolio (SpecBacktest) *)

\* asset a has had a return of exactly -1 on some date t0 <= t
Collapsed(a, t) == \E t0 \in 1..t : returns[t0][a] = RInt(-1)

\* asset a's term of the portfolio value at date t
Term(a, t) == RMul(weights[a], cumulative_returns(stocks, returns)[t][a])

\* sum over the assets a <= n not Collapsed by date t of
\* weights[a] * Growth(a, t)
RECURSIVE SurvivingGrowth(_, _)
SurvivingGrowth(n, t) ==
    IF n = 0 THEN RInt(0)
    ELSE RAdd(SurvivingGrowth(n - 1, t),
              IF Collapsed(n, t) THEN RInt(0)
              ELSE RMul(weights[n], Growth(n, t)))

\* C14: once an asset's return has been exactly -1 on a date t0, its term
\* weight[a] * cumgrowth[a][t] is 0 at t0 and at every later date whatever
\* returns follow, and the other assets' terms are what they would be
\* anyway, so the value is the total times the sum of the other terms.
C14_TotalLoss ==
    pc = "bt_done" =>
        \A t \in DOMAIN returns :
            /\ \A a \in 1..N :
                  /\ Collapsed(a, t) => Term(a, t) = RInt(0)
                  /\ ~Collapsed(a, t) =>
                        Term(a, t) = RMul(weights[a], Growth(a, t))
            /\ portfolio_value[t]
                  = RMul(RInt(AmountsTotal), SurvivingGrowth(N, t))

\* asset 1 loses everything on the first date and gains 1/2 on the second;
\* both assets carry weight and asset 2 keeps a value
C14_Witness ==
    /\ pc = "bt_done" /\ N = 2 /\ Len(returns) = 2
    /\ returns[1][1] = RInt(-1) /\ returns[2][1] = Rat(1, 2)
    /\ ~Collapsed(2, 2) /\ returns[2][2] = Rat(1, 2)
    /\ RGt(weights[1], RInt(0)) /\ RGt(weights[2], RInt(0))
    /\ RGt(portfolio_value[2], RInt(0))

---------------------------------------------------------------------------
(* Order of the stages of one request (SpecApp) *)

\* 1 validation, 2 data download, 3 backtest, 4 Monte Carlo, 5 optimization,
\* 6 the results section, 7 the request has ended
StageAt(p) ==
    CASE p = "app_idle" -> 1
      [] p \in {"gd_call", "gd_columns", "gd_rows", "gd_returns",
                "gd_done", "gd_raised"} -> 2
      [] p \in {"bt_call", "bt_done"} -> 3
      [] p \in {"mc_call", "mc_trials", "mc_days", "mc_done"} -> 4
      [] p \in {"opt_call", "opt_loop", "opt_done"} -> 5
      [] p = "app_insights" -> 6
      [] OTHER -> 7

ErrorMessages ==
    {"error: Please enter all three stock tickers!",
     "error: Please enter investment amounts greater than 0!",
     "error: Failed to download data",
     "error: An error occurred"}

ResultsShown == \E k \in DOMAIN shown : shown[k] = "results"

ErrorShown == \E k \in DOMAIN shown : shown[k] \in ErrorMessages

BacktestCompleted == weights # <<>> /\ portfolio_value # <<>>

MonteCarloStarted ==
    initial_shares # <<>> \/ portfolio_end_values # <<>> \/ stats # <<>>

OptimizationStarted ==
    mean_returns # <<>> \/ results # <<>> \/ max_sharpe # <<>>

\* what holds in every state of a request
StagesInOrder ==
    /\ StageAt(pc) <= 2 =>
          ~BacktestCompleted /\ ~MonteCarloStarted /\ ~OptimizationStarted
    /\ StageAt(pc) \in {2, 3, 4, 5, 6} =>
          /\ \A i \in 1..3 : ticker_inputs[i] # ""
          /\ total_investment(investments) > 0
    /\ StageAt(pc) \in {3, 4, 5, 6} =>
          error = "none" /\ returns # <<>> /\ ~Empty(adj_close)
    /\ pc = "bt_call" => ~BacktestCompleted
    /\ StageAt(pc) = 3 => ~MonteCarloStarted /\ ~OptimizationStarted
    /\ StageAt(pc) \in {4, 5, 6} => BacktestCompleted
    /\ StageAt(pc) = 4 => ~OptimizationStarted
    /\ StageAt(pc) \in {5, 6} => stats # <<>>
    /\ StageAt(pc) = 6 => max_sharpe # <<>>
    /\ StageAt(pc) <= 5 => shown = <<>>
    /\ ResultsShown =>
          /\ StageAt(pc) >= 6
          /\ BacktestCompleted /\ stats # <<>> /\ max_sharpe # <<>>
          /\ shown[1] = "results"
    /\ (pc = "app_returned" /\ max_sharpe = <<>>) =>
          /\ Len(shown) = 1 /\ shown[1] \in ErrorMessages
          /\ ~ResultsShown

\* every step stays in its stage, starts the next one, or ends the request
StageStep ==
    \/ StageAt(pc') = StageAt(pc)
    \/ StageAt(pc') = StageAt(pc) + 1
    \/ pc' = "app_returned"

\* C15: the stages of one request run in the order validation, data
\* download, backtest, Monte Carlo, optimization; a stage starts only after
\* the previous one has completed without error, the results section is
\* rendered only after all of them have completed, and a failure in any
\* stage ends the request with an error message and no results section.
C15_StageOrder == [](StagesInOrder) /\ [][StageStep]_vars

\* a request that went through every stage and rendered its results
C15_Witness ==
    /\ pc = "app_returned"
    /\ shown = <<"results", "insights">>
    /\ BacktestCompleted /\ stats # <<>> /\ max_sharpe # <<>>

\* a request that failed in the Monte Carlo stage
C15_WitnessFailure ==
    /\ pc = "app_returned"
    /\ BacktestCompleted /\ drawn # <<>> /\ stats = <<>>
    /\ shown = <<"error: An error occurred">>

---------------------------------------------------------------------------
(* The starting value of the two engines in one request (SpecApp) *)

\* both engines have worked on the same mapping and dataset, and every
\* latest price is positive
BothEnginesStarted ==
    /\ BacktestCompleted /\ Len(initial_shares) = N
    /\ \A a \in 1..N : RGt(initial_prices[a], RInt(0))

\* C16: the total that backtest_portfolio scales its series by equals the
\* initial portfolio value of run_monte_carlo,
\* sum_a latest_price[a] * initial_shares[a], also when the investments
\* mapping names a ticker that is not a column of the dataset.
C16_SameStartingValue ==
    BothEnginesStarted =>
        /\ \A t \in DOMAIN portfolio_value :
              portfolio_value[t]
                 = RMul(RInt(total_investment(investments)),
                        WeightedGrowth(N, t))
        /\ RInt(total_investment(investments)) = InitialValue(N)

\* the two agree when every ticker of the mapping is a column
SameStartingValueOnColumns ==
    (BothEnginesStarted /\ DOMAIN investments \subseteq Range(stocks)) =>
        RInt(total_investment(investments)) = InitialValue(N)

\* a ticker with money on it was dropped by get_data, and the engines start
\* from different values
DroppedTickerFunded ==
    /\ BothEnginesStarted
    /\ \E t \in DOMAIN investments :
          t \notin Range(stocks) /\ investments[t] > 0
    /\ RGt(RInt(total_investment(investments)), InitialValue(N))

====
